---- MODULE Spec2Model ----
(***************************************************************************)
(* Model of the campaign pipeline: the linear analysis pipeline            *)
(* (core/graph.py workflow, ui/app.py "Start Research Phase"), the         *)
(* generate -> promote -> review -> refine loop (core/graph.py             *)
(* gen_workflow, ui/app.py "Generate Selected Assets") and the thread-pool *)
(* fan-out inside ContentCreatorAgent.batch_generate.                      *)
(*                                                                         *)
(* A PipelineState (AgentState) is a Python dict: here a function from     *)
(* key strings to values, whose domain grows as stages add keys.           *)
(***************************************************************************)
EXTENDS Integers, Sequences, FiniteSets, TLC

VARIABLES
    driver,       \* who sequences the nodes: "ui" (ui/app.py) or "graph" (compiled StateGraph)
    pc,           \* the node about to run, "END", or "aborted" (an exception left a node)
    state,        \* the dict threaded through the nodes (current_state / gen_state / channels)
    script,       \* scripted outcomes of the reviewer's service call, one per review
    reviews,      \* number of review_node executions so far in this run
    start_count,  \* refinement_count the run started with
    last,         \* what the last executed node was given and what it returned
    palette,      \* the outcomes the reviewer's service call can have in this run
    budget,       \* how many more service calls of the generation run may raise
    ran,          \* history: the nodes executed so far in this run, in order
    fpc,          \* fan-out: position of the thread calling batch_generate
    fstate,       \* fan-out: the dict passed to batch_generate
    raises,       \* fan-out: the manifest positions whose generate_one raises
    task,         \* fan-out: state of each future
    submits,      \* fan-out: how many times each manifest item was submitted
    yielded,      \* fan-out: futures in the order as_completed yielded them
    assets,       \* fan-out: the local list `assets`
    errs,         \* fan-out: the local list `errors`
    result,       \* fan-out: the dict batch_generate returned
    rin,          \* rerun: the caller's dict and the outcome each stage's service call has
    rout,         \* rerun: the final states of the runs made on that dict so far
    svc,          \* score check: the score field of the service's reply, and the threshold
    verdict,      \* score check: the reviewer_score stored and what should_refine did with it
    handler,      \* drivers: position, dict and steps of the UI's generation handler
    compiled,     \* drivers: position, dict and steps of generation_graph
    played        \* drivers: the outcome every step of the handler's run had

vars == <<driver, pc, state, script, reviews, start_count, last, palette, budget, ran,
          fpc, fstate, raises, task, submits, yielded, assets, errs, result, rin, rout,
          svc, verdict, handler, compiled, played>>

orchVars == <<driver, pc, state, script, reviews, start_count, last, palette, budget, ran>>
fanVars == <<fpc, fstate, raises, task, submits, yielded, assets, errs, result>>
rerunVars == <<rin, rout>>
scoreVars == <<svc, verdict>>
equivVars == <<handler, compiled, played>>

----------------------------------------------------------------------------
(* Bounds of the model *)

MaxManifest == 2          \* manifest sizes 0..MaxManifest in the pipeline runs
MaxRefinementsBound == 2  \* max_refinements ranges over 0..MaxRefinementsBound
FanMaxManifest == 4       \* manifest sizes 0..FanMaxManifest in the fan-out runs
MaxFaults == 2            \* raising service calls per generation run

(* Program constants *)

max_workers == 3              \* ThreadPoolExecutor(max_workers=3)
DefaultThreshold == 80        \* state.get("refinement_threshold", 80)
DefaultMaxRefinements == 2    \* state.get("max_refinements", 2)

type_options ==
    <<"Blog Post", "LinkedIn Post", "Email Sequence", "Whitepaper",
      "Case Study", "Webinar Script", "Landing Page">>

----------------------------------------------------------------------------
(* dict helpers *)

\* state.get(k, d)
Get(st, k, d) == IF k \in DOMAIN st THEN st[k] ELSE d

EmptyDict == [k \in {} |-> 0]

Merge_replaces_dict(st, upd) == upd

\* dict.update(upd): overwrite exactly the keys of upd
Merge(st, upd) ==
    [k \in (DOMAIN st) \cup (DOMAIN upd) |-> IF k \in DOMAIN upd THEN upd[k] ELSE st[k]]

\* st[k] = v
Put(st, k, v) == Merge(st, [x \in {k} |-> v])

ErrorRecord(agent, type, msg) ==
    [agent_name |-> agent, error_type |-> type, message |-> msg, recoverable |-> TRUE]

\* errors = state.get("errors", []); errors.append(rec)
\* The list is the one held by the dict when the key is present (an alias),
\* a fresh list otherwise: .st is the dict as the append leaves it.
AppendError(st, rec) ==
    LET errors == Append(Get(st, "errors", <<>>), rec)
    IN  [errors |-> errors,
         st |-> IF "errors" \in DOMAIN st THEN [st EXCEPT !["errors"] = errors] ELSE st]

\* What a node call produced: it raised, or it returned the update upd;
\* st is the dict it was given, as the call left it; calls lists the
\* outcomes of the service calls the node made.
Returned(st, upd, calls) == [raised |-> FALSE, st |-> st, upd |-> upd, calls |-> calls]
Raised(st, calls) == [raised |-> TRUE, st |-> st, upd |-> EmptyDict, calls |-> calls]

IsPrefix(s, t) == Len(s) <= Len(t) /\ SubSeq(t, 1, Len(s)) = s

Min(a, b) == IF a <= b THEN a ELSE b

----------------------------------------------------------------------------
(* Collaborators of the input node: utils/scraper.py, utils/doc_loader.py *)

ValidUrl == "https://acme.example"
InvalidUrl == "ftp://acme.example"

\* validate_url raises ValueError unless the URL passes every check
validate_url_raises(url) == url # ValidUrl

\* WebScraper.scrape(url): validate_url(url) runs before the try block, so
\* its ValueError leaves scrape; a failed fetch inside the try block is
\* turned into an "Error during scrape" string.
scrape(url, fetch) ==
    IF validate_url_raises(url) THEN [raised |-> TRUE, text |-> ""]
    ELSE IF fetch = "fail" THEN [raised |-> FALSE, text |-> "Error during scrape"]
    ELSE [raised |-> FALSE, text |-> "# Primary Page Summary"]

\* "\n".join(DocumentLoader("data").load_files())
load_files(docs) ==
    CASE docs = "missing" -> "Directory not found."
      [] docs = "unreadable" -> "--- Error loading file ---"
      [] docs = "empty" -> ""
      [] OTHER -> "--- File: notes.txt ---"

FetchOutcomes == {"ok", "fail"}
DocOutcomes == {"missing", "unreadable", "empty", "loaded"}

\* calls lists what the scraper's fetch ("none": no URL, nothing fetched)
\* and the document loader met
input_node(st, fetch, docs) ==
    LET url == Get(st, "company_url", "")
        web == IF url # "" THEN scrape(url, fetch) ELSE [raised |-> FALSE, text |-> ""]
    IN  IF web.raised THEN Raised(st, <<>>)
        ELSE Returned(st, [raw_web_content |-> web.text,
                           raw_doc_content |-> load_files(docs)],
                      <<IF url # "" THEN fetch ELSE "none", docs>>)

----------------------------------------------------------------------------
(* Analysis agents.  The outcome parameter is what the generative service *)
(* does for this invocation.                                               *)

\* CompanyResearchAgent.research: get_llm() before the try block, a JSON
\* attempt, then a plain-string attempt, then the error record.
ResearchOutcomes == {"json_ok", "fallback_ok", "both_fail", "no_llm"}

research_reports_fallback_err(st, out) ==
    CASE out = "no_llm" -> Raised(st, <<>>)
      [] out = "json_ok" ->
            Returned(st, [company_name |-> "Acme", deep_research |-> "report"], <<"ok">>)
      [] out = "fallback_ok" ->
            Returned(st, [company_name |-> "Acme", deep_research |-> "report"],
                     <<"fail", "ok">>)
      [] OTHER ->
            LET a == AppendError(st, ErrorRecord("CompanyResearchAgent", "api_error",
                                                 "fallback_err"))
            IN  Returned(a.st,
                         [company_name |-> Get(st, "company_name", "Unknown"),
                          deep_research |-> "Error during research",
                          errors |-> a.errors],
                         <<"fail", "fail">>)

research(st, out) ==
    CASE out = "no_llm" -> Raised(st, <<>>)
      [] out = "json_ok" ->
            Returned(st, [company_name |-> "Acme", deep_research |-> "report"], <<"ok">>)
      [] out = "fallback_ok" ->
            Returned(st, [company_name |-> "Acme", deep_research |-> "report"],
                     <<"fail", "ok">>)
      [] OTHER ->
            LET a == AppendError(st, ErrorRecord("CompanyResearchAgent", "api_error", "json_err"))
            IN  Returned(a.st,
                         [company_name |-> Get(st, "company_name", "Unknown"),
                          deep_research |-> "Error during research",
                          errors |-> a.errors],
                         <<"fail", "fail">>)

StageOutcomes == {"ok", "fail"}
LlmStageOutcomes == {"ok", "fail", "no_llm"}

\* MarketSegmentAgent.analyze
segment_analyze(st, out) ==
    IF out = "ok"
    THEN Returned(st, [segments |-> <<"Enterprise Fintech">>, personas |-> <<"CTO">>], <<"ok">>)
    ELSE LET a == AppendError(st, ErrorRecord("MarketSegmentAgent", "api_error", "e"))
         IN  Returned(a.st, [segments |-> <<>>, personas |-> <<>>, errors |-> a.errors],
                      <<"fail">>)

\* CompetitorAgent.analyze: get_llm() before the try block
competitor_analyze(st, out) ==
    CASE out = "no_llm" -> Raised(st, <<>>)
      [] out = "ok" -> Returned(st, [competitor_analysis |-> "battlecard"], <<"ok">>)
      [] OTHER ->
            LET a == AppendError(st, ErrorRecord("CompetitorAgent", "api_error", "e"))
            IN  Returned(a.st, [competitor_analysis |-> "Error in CompetitorAgent",
                                errors |-> a.errors], <<"fail">>)

\* StrategyAgent.develop_strategy
develop_strategy(st, out) ==
    IF out = "ok"
    THEN Returned(st, [strategy_framework |-> "positioning"], <<"ok">>)
    ELSE LET a == AppendError(st, ErrorRecord("StrategyAgent", "api_error", "e"))
         IN  Returned(a.st, [strategy_framework |-> "Error in StrategyAgent",
                             errors |-> a.errors], <<"fail">>)

\* CampaignArchitectAgent.create_brief
create_brief(st, out) ==
    IF out = "ok"
    THEN Returned(st, [campaign_brief |-> [campaign_name |-> "Launch"]], <<"ok">>)
    ELSE LET a == AppendError(st, ErrorRecord("CampaignArchitectAgent", "api_error", "e"))
         IN  Returned(a.st, [campaign_brief |-> [error |-> "e"], errors |-> a.errors],
                      <<"fail">>)

\* A manifest item.  The service's job list carries recommended_asset_type
\* only ("jtbd"); the manifest editor of the UI sets both type keys ("ui");
\* "bare" is an item with neither; "unlisted" is a job whose
\* recommended_asset_type the service wrote freely, outside type_options.
TypeOf(i) == type_options[((i - 1) % Len(type_options)) + 1]

UnlistedType == "Podcast Episode"

Item(i, shape) ==
    CASE shape = "ui" ->
            [burning_question |-> i, recommended_asset_type |-> TypeOf(i),
             asset_type |-> TypeOf(i)]
      [] shape = "jtbd" -> [burning_question |-> i, recommended_asset_type |-> TypeOf(i)]
      [] shape = "unlisted" -> [burning_question |-> i, recommended_asset_type |-> UnlistedType]
      [] OTHER -> [burning_question |-> i]

Manifest(n, shape) == [i \in 1..n |-> Item(i, shape)]

analyze_jobs_no_record(st, out) ==
    IF out = "ok"
    THEN Returned(st, [content_manifest |-> Manifest(MaxManifest, "jtbd")], <<"ok">>)
    ELSE Returned(st, [content_manifest |-> <<>>], <<"fail">>)

\* JTBDAnalyst.analyze_jobs
analyze_jobs(st, out) ==
    IF out = "ok"
    THEN Returned(st, [content_manifest |-> Manifest(MaxManifest, "jtbd")], <<"ok">>)
    ELSE LET a == AppendError(st, ErrorRecord("JTBDAnalyst", "api_error", "e"))
         IN  Returned(a.st, [content_manifest |-> <<>>, errors |-> a.errors], <<"fail">>)

----------------------------------------------------------------------------
(* Generation agents *)

\* ContentCreatorAgent.generate_asset.  The content the service writes is
\* represented by what the prompt was built from.
generate_asset(item, instructions) ==
    LET asset_type == Get(item, "asset_type", Get(item, "recommended_asset_type", "Blog Post"))
        question == Get(item, "burning_question", 0)
        persona == Get(item, "persona_role", "Buyer")
        content == [question |-> question, refinement |-> instructions]
    IN  [type |-> asset_type,
         title |-> <<asset_type, persona, question>>,
         content |-> content,
         persona |-> persona,
         id |-> Get(item, "id", <<"hash", content>>)]

\* batch_generate, "Normalize asset types": done in place on each item
NormalizeItem(item) ==
    IF "asset_type" \notin DOMAIN item /\ "recommended_asset_type" \in DOMAIN item
    THEN Put(item, "asset_type", item["recommended_asset_type"])
    ELSE IF "asset_type" \notin DOMAIN item
    THEN Put(item, "asset_type", "Blog Post")
    ELSE item

\* the record batch_generate appends when future.result() raises
GenerationError(item) ==
    ErrorRecord("ContentCreatorAgent", "generation_error",
                <<"Failed to generate", Get(item, "recommended_asset_type", "asset")>>)

\* lines 124-126: result = future.result(); if result: assets.append(result)
CollectResult_dropped(lst, r) == lst

CollectResult_overwrites(lst, r) == IF r # EmptyDict THEN <<r>> ELSE lst

CollectResult(lst, r) == IF r # EmptyDict THEN Append(lst, r) ELSE lst

\* One pass of the as_completed loop over the futures in the order `order`:
\* a future that returned appends its (non-empty) result to assets, a future
\* that raised appends one record to errors.
CollectAssets(items, order, F, instructions) ==
    LET acc[j \in 0..Len(order)] ==
            IF j = 0 THEN <<>>
            ELSE IF order[j] \in F THEN acc[j - 1]
            ELSE CollectResult(acc[j - 1], generate_asset(items[order[j]], instructions))
    IN  acc[Len(order)]

CollectErrors_fresh(prior, items, order, F) ==
    LET acc[j \in 0..Len(order)] ==
            IF j = 0 THEN <<>>
            ELSE IF order[j] \in F THEN Append(acc[j - 1], GenerationError(items[order[j]]))
            ELSE acc[j - 1]
    IN  acc[Len(order)]

CollectErrors(prior, items, order, F) ==
    LET acc[j \in 0..Len(order)] ==
            IF j = 0 THEN prior
            ELSE IF order[j] \in F THEN Append(acc[j - 1], GenerationError(items[order[j]]))
            ELSE acc[j - 1]
    IN  acc[Len(order)]

\* the orders in which as_completed can yield n futures
Orders(n) == {p \in [1..n -> 1..n] : \A i, j \in 1..n : p[i] = p[j] => i = j}

batch_generate_accumulates(st, order, F) ==
    LET manifest == Get(st, "content_manifest", <<>>)
        instructions == Get(st, "refinement_instructions", "")
        items == [i \in 1..Len(manifest) |-> NormalizeItem(manifest[i])]
        new_assets == Get(st, "generated_assets", <<>>)
                        \o CollectAssets(items, order, F, instructions)
        errors == CollectErrors(Get(st, "errors", <<>>), items, order, F)
        st1 == IF "content_manifest" \in DOMAIN st
               THEN [st EXCEPT !["content_manifest"] = items] ELSE st
        st2 == IF "errors" \in DOMAIN st1 THEN [st1 EXCEPT !["errors"] = errors] ELSE st1
    IN  Returned(st2, [generated_assets |-> new_assets, errors |-> errors], <<>>)

\* ContentCreatorAgent.batch_generate as one call: `order` is the order in
\* which the futures complete, F the manifest positions whose task raises.
batch_generate(st, order, F) ==
    LET manifest == Get(st, "content_manifest", <<>>)
        instructions == Get(st, "refinement_instructions", "")
        items == [i \in 1..Len(manifest) |-> NormalizeItem(manifest[i])]
        new_assets == CollectAssets(items, order, F, instructions)
        errors == CollectErrors(Get(st, "errors", <<>>), items, order, F)
        st1 == IF "content_manifest" \in DOMAIN st
               THEN [st EXCEPT !["content_manifest"] = items] ELSE st
        st2 == IF "errors" \in DOMAIN st1 THEN [st1 EXCEPT !["errors"] = errors] ELSE st1
    IN  Returned(st2, [generated_assets |-> new_assets, errors |-> errors], <<>>)

\* the record batch_promote appends when generate_promo raises
PromoError(asset) ==
    ErrorRecord("PromotionalAgent", "api_error",
                <<"Failed to generate promo for asset", Get(asset, "title", "unknown")>>)

\* PromotionalAgent.generate_promo: the promo output for one asset
generate_promo(asset) ==
    [parent_asset_id |-> Get(asset, "id", "None"),
     promo_content |-> <<"promo for", Get(asset, "content", "")>>]

\* the promo outputs batch_promote received, in the order of the assets
PromoOutputs(old, F) ==
    LET acc[j \in 0..Len(old)] ==
            IF j = 0 THEN <<>>
            ELSE IF j \in F THEN acc[j - 1]
            ELSE Append(acc[j - 1], generate_promo(old[j]))
    IN  acc[Len(old)]

batch_promote_marks_failed(st, F) ==
    LET old == Get(st, "generated_assets", <<>>)
        promoted == [j \in 1..Len(old) |->
                        IF j \in F THEN Put(old[j], "promotional_materials", "")
                        ELSE Put(old[j], "promotional_materials",
                                 generate_promo(old[j])["promo_content"])]
        errs_acc[j \in 0..Len(old)] ==
            IF j = 0 THEN Get(st, "errors", <<>>)
            ELSE IF j \in F THEN Append(errs_acc[j - 1], PromoError(old[j]))
            ELSE errs_acc[j - 1]
        errors == errs_acc[Len(old)]
        st1 == IF "generated_assets" \in DOMAIN st
               THEN [st EXCEPT !["generated_assets"] = promoted] ELSE st
        st2 == IF "errors" \in DOMAIN st1 THEN [st1 EXCEPT !["errors"] = errors] ELSE st1
    IN  Returned(st2, [generated_assets |-> promoted, errors |-> errors], PromoOutputs(old, F))

batch_promote_stops_at_failure(st, F) ==
    LET old == Get(st, "generated_assets", <<>>)
        reached == {j \in 1..Len(old) : \A k \in F : j <= k}
        promoted == [j \in 1..Len(old) |->
                        IF j \in F \/ j \notin reached THEN old[j]
                        ELSE Put(old[j], "promotional_materials",
                                 generate_promo(old[j])["promo_content"])]
        errs_acc[j \in 0..Len(old)] ==
            IF j = 0 THEN Get(st, "errors", <<>>)
            ELSE IF j \in F /\ j \in reached THEN Append(errs_acc[j - 1], PromoError(old[j]))
            ELSE errs_acc[j - 1]
        errors == errs_acc[Len(old)]
        st1 == IF "generated_assets" \in DOMAIN st
               THEN [st EXCEPT !["generated_assets"] = promoted] ELSE st
        st2 == IF "errors" \in DOMAIN st1 THEN [st1 EXCEPT !["errors"] = errors] ELSE st1
    IN  Returned(st2, [generated_assets |-> promoted, errors |-> errors], PromoOutputs(old, F))

\* PromotionalAgent.batch_promote: F is the set of positions in
\* generated_assets whose generate_promo raises; calls lists the promo
\* outputs the other positions produced.
batch_promote(st, F) ==
    LET old == Get(st, "generated_assets", <<>>)
        promoted == [j \in 1..Len(old) |->
                        IF j \in F THEN old[j]
                        ELSE Put(old[j], "promotional_materials",
                                 generate_promo(old[j])["promo_content"])]
        errs_acc[j \in 0..Len(old)] ==
            IF j = 0 THEN Get(st, "errors", <<>>)
            ELSE IF j \in F THEN Append(errs_acc[j - 1], PromoError(old[j]))
            ELSE errs_acc[j - 1]
        errors == errs_acc[Len(old)]
        st1 == IF "generated_assets" \in DOMAIN st
               THEN [st EXCEPT !["generated_assets"] = promoted] ELSE st
        st2 == IF "errors" \in DOMAIN st1 THEN [st1 EXCEPT !["errors"] = errors] ELSE st1
    IN  Returned(st2, [generated_assets |-> promoted, errors |-> errors], PromoOutputs(old, F))

\* What the reviewer's service call does: returns a JSON object with a
\* score and instructions, raises, or (kind "no_llm") get_llm() itself
\* raises before the try block.
ScoreOutcome(s) == [kind |-> "score", score |-> s]
RaiseOutcome == [kind |-> "raise", score |-> 0]
NoLlmOutcome == [kind |-> "no_llm", score |-> 0]

\* the instructions the n-th review of a run writes
InstructionsOf(n) == "fix " \o ToString(n)

review_campaign_resets_count(st, out, n) ==
    CASE out.kind = "no_llm" -> Raised(st, <<>>)
      [] out.kind = "score" ->
            Returned(st, [reviewer_feedback |-> "Strengths and Gaps",
                          reviewer_score |-> out.score,
                          refinement_instructions |-> InstructionsOf(n),
                          refinement_count |-> 0], <<"ok">>)
      [] OTHER ->
            LET a == AppendError(st, ErrorRecord("ReviewerAgent", "api_error", "e"))
            IN  Returned(a.st, [reviewer_feedback |-> "Review Error",
                                reviewer_score |-> 0,
                                refinement_instructions |-> "Please retry generation.",
                                refinement_count |-> 0,
                                errors |-> a.errors], <<"fail">>)

review_campaign_drops_record(st, out, n) ==
    CASE out.kind = "no_llm" -> Raised(st, <<>>)
      [] out.kind = "score" ->
            Returned(st, [reviewer_feedback |-> "Strengths and Gaps",
                          reviewer_score |-> out.score,
                          refinement_instructions |-> InstructionsOf(n)], <<"ok">>)
      [] OTHER ->
            Returned(st, [reviewer_feedback |-> "Review Error",
                          reviewer_score |-> 0,
                          refinement_instructions |-> "Please retry generation."], <<"fail">>)

\* ReviewerAgent.review_campaign; n numbers the review within the run
review_campaign(st, out, n) ==
    CASE out.kind = "no_llm" -> Raised(st, <<>>)
      [] out.kind = "score" ->
            Returned(st, [reviewer_feedback |-> "Strengths and Gaps",
                          reviewer_score |-> out.score,
                          refinement_instructions |-> InstructionsOf(n)], <<"ok">>)
      [] OTHER ->
            LET a == AppendError(st, ErrorRecord("ReviewerAgent", "api_error", "e"))
            IN  Returned(a.st, [reviewer_feedback |-> "Review Error",
                                reviewer_score |-> 0,
                                refinement_instructions |-> "Please retry generation.",
                                errors |-> a.errors], <<"fail">>)

increment_refinement_by_two(st) ==
    Returned(st, [refinement_count |-> Get(st, "refinement_count", 0) + 2], <<>>)

\* core/graph.py increment_refinement
increment_refinement(st) ==
    Returned(st, [refinement_count |-> Get(st, "refinement_count", 0) + 1], <<>>)

should_refine_at_threshold(st) ==
    IF Get(st, "reviewer_score", 0) <= Get(st, "refinement_threshold", DefaultThreshold)
       /\ Get(st, "refinement_count", 0) < Get(st, "max_refinements", DefaultMaxRefinements)
    THEN "refine" ELSE "end"

should_refine_once_more(st) ==
    IF Get(st, "reviewer_score", 0) < Get(st, "refinement_threshold", DefaultThreshold)
       /\ Get(st, "refinement_count", 0) <= Get(st, "max_refinements", DefaultMaxRefinements)
    THEN "refine" ELSE "end"

should_refine_stops_early(st) ==
    IF Get(st, "reviewer_score", 0) < Get(st, "refinement_threshold", DefaultThreshold)
       /\ Get(st, "refinement_count", 0) + 1 < Get(st, "max_refinements", DefaultMaxRefinements)
    THEN "refine" ELSE "end"

\* core/graph.py should_refine
should_refine(st) ==
    LET score == Get(st, "reviewer_score", 0)
        count == Get(st, "refinement_count", 0)
        threshold == Get(st, "refinement_threshold", DefaultThreshold)
        max_refs == Get(st, "max_refinements", DefaultMaxRefinements)
    IN  IF score < threshold /\ count < max_refs THEN "refine" ELSE "end"

----------------------------------------------------------------------------
(* Initial states of the two entry points *)

Thresholds == {0, DefaultThreshold}
Scores == {50, 65, 80, 85, 95}
ReviewOutcomes == {ScoreOutcome(s) : s \in Scores} \cup {RaiseOutcome, NoLlmOutcome}
FewReviewOutcomes == {ScoreOutcome(50), ScoreOutcome(85), RaiseOutcome, NoLlmOutcome}

NoLast == [node |-> "none", before |-> EmptyDict, after |-> EmptyDict,
           raised |-> FALSE, upd |-> EmptyDict, calls |-> <<>>]

PriorError == ErrorRecord("JTBDAnalyst", "api_error", "earlier run")

\* ui/app.py "Start Research Phase": current_state
UiAnalysisState(url) ==
    [company_url |-> url, uploaded_files |-> <<>>, uploaded_file_bytes |-> <<>>,
     brand_voice |-> "", brand_tone |-> "", messaging_pillars |-> <<>>,
     refinement_threshold |-> DefaultThreshold, max_refinements |-> DefaultMaxRefinements,
     errors |-> <<>>]

\* ui/app.py "Generate Selected Assets": gen_state
UiGenState(manifest, threshold, max_refs) ==
    [content_manifest |-> manifest, campaign_brief |-> [campaign_name |-> "Launch"],
     strategy_framework |-> "positioning", company_name |-> "Acme",
     brand_voice |-> "", brand_tone |-> "", messaging_pillars |-> <<>>,
     generated_assets |-> <<>>, refinement_count |-> 0, refinement_instructions |-> "",
     refinement_threshold |-> threshold, max_refinements |-> max_refs, errors |-> <<>>]

\* the dict a caller hands to generation_graph: only the keys it chooses to
\* set; the nodes fall back to their .get defaults for the others
GraphGenState(manifest, count, prior) ==
    [content_manifest |-> manifest, refinement_count |-> count, errors |-> prior]

\* the dict of an earlier generation run handed to generation_graph again:
\* it carries that run's refinement_count, errors, assets and the
\* instructions of its last review
StaleInstructions == "fix earlier run"

EarlierRunState(manifest) ==
    Merge(GraphGenState(manifest, 1, <<PriorError>>),
          [refinement_instructions |-> StaleInstructions,
           generated_assets |-> <<generate_asset(Item(MaxManifest + 1, "jtbd"), "")>>])

FanIdle ==
    /\ fpc = "idle"
    /\ fstate = EmptyDict
    /\ raises = {}
    /\ task = <<>>
    /\ submits = <<>>
    /\ yielded = <<>>
    /\ assets = <<>>
    /\ errs = <<>>
    /\ result = EmptyDict

RerunIdle ==
    /\ rin = EmptyDict
    /\ rout = <<>>

ScoreIdle ==
    /\ svc = EmptyDict
    /\ verdict = EmptyDict

EquivIdle ==
    /\ handler = EmptyDict
    /\ compiled = EmptyDict
    /\ played = <<>>

InitAnalysis ==
    /\ pc = "inputs"
    /\ \/ driver = "ui" /\ \E url \in {ValidUrl, InvalidUrl} : state = UiAnalysisState(url)
       \/ driver = "graph" /\ \E url \in {"", ValidUrl, InvalidUrl} : state = [company_url |-> url]

InitGeneration ==
    /\ pc = "content_creation"
    /\ \/ /\ driver = "ui"
          /\ \E n \in 1..MaxManifest, t \in Thresholds, m \in 0..MaxRefinementsBound :
                state = UiGenState(Manifest(n, "ui"), t, m)
       \/ /\ driver = "graph"
          /\ \E n \in 0..MaxManifest, shape \in {"jtbd", "bare"}, carried \in BOOLEAN :
                state = IF carried THEN EarlierRunState(Manifest(n, shape))
                        ELSE GraphGenState(Manifest(n, shape), 0, <<>>)

Init ==
    /\ InitAnalysis \/ InitGeneration
    /\ script = <<>>
    /\ reviews = 0
    /\ start_count = Get(state, "refinement_count", 0)
    /\ last = NoLast
    /\ palette = FewReviewOutcomes
    /\ budget = MaxFaults
    /\ ran = <<>>
    /\ FanIdle
    /\ RerunIdle
    /\ ScoreIdle
    /\ EquivIdle

----------------------------------------------------------------------------
(* Running a node: the driver calls it with the current dict and merges   *)
(* the update it returns (current_state.update(result) in the UI, the     *)
(* channel write in the compiled graph).  An exception leaves the node    *)
(* and the driver: the UI's except clause reports "Research Failed" /     *)
(* "Generation Failed", the graph's invoke raises.  Nothing runs after it.*)

RunNode(node, r, next) ==
    /\ pc = node
    /\ ran' = Append(ran, node)
    /\ last' = [node |-> node, before |-> state, after |-> r.st,
                raised |-> r.raised, upd |-> r.upd, calls |-> r.calls]
    /\ IF r.raised
       THEN pc' = "aborted" /\ state' = r.st
       ELSE pc' = next /\ state' = Merge(r.st, r.upd)

inputs ==
    /\ \E fetch \in FetchOutcomes, docs \in DocOutcomes :
            RunNode("inputs", input_node(state, fetch, docs), "research")
    /\ UNCHANGED <<driver, script, reviews, start_count, palette, budget, fanVars, rerunVars, scoreVars, equivVars>>

research_node_then_competitors ==
    /\ \E out \in ResearchOutcomes : RunNode("research", research(state, out), "competitors")
    /\ UNCHANGED <<driver, script, reviews, start_count, palette, budget, fanVars, rerunVars, scoreVars, equivVars>>

research_node ==
    /\ \E out \in ResearchOutcomes : RunNode("research", research(state, out), "segmentation")
    /\ UNCHANGED <<driver, script, reviews, start_count, palette, budget, fanVars, rerunVars, scoreVars, equivVars>>

segment_node ==
    /\ \E out \in StageOutcomes :
            RunNode("segmentation", segment_analyze(state, out), "competitors")
    /\ UNCHANGED <<driver, script, reviews, start_count, palette, budget, fanVars, rerunVars, scoreVars, equivVars>>

competitor_node ==
    /\ \E out \in LlmStageOutcomes :
            RunNode("competitors", competitor_analyze(state, out), "strategy")
    /\ UNCHANGED <<driver, script, reviews, start_count, palette, budget, fanVars, rerunVars, scoreVars, equivVars>>

strategy_node ==
    /\ \E out \in StageOutcomes :
            RunNode("strategy", develop_strategy(state, out), "campaign_briefing")
    /\ UNCHANGED <<driver, script, reviews, start_count, palette, budget, fanVars, rerunVars, scoreVars, equivVars>>

campaign_node ==
    /\ \E out \in StageOutcomes :
            RunNode("campaign_briefing", create_brief(state, out), "jtbd_analysis")
    /\ UNCHANGED <<driver, script, reviews, start_count, palette, budget, fanVars, rerunVars, scoreVars, equivVars>>

jtbd_node ==
    /\ \E out \in StageOutcomes : RunNode("jtbd_analysis", analyze_jobs(state, out), "END")
    /\ UNCHANGED <<driver, script, reviews, start_count, palette, budget, fanVars, rerunVars, scoreVars, equivVars>>

content_node ==
    /\ \E order \in Orders(Len(Get(state, "content_manifest", <<>>))) :
       \E F \in SUBSET (1..Len(Get(state, "content_manifest", <<>>))) :
            /\ Cardinality(F) <= budget
            /\ budget' = budget - Cardinality(F)
            /\ RunNode("content_creation", batch_generate(state, order, F), "promotion")
    /\ UNCHANGED <<driver, script, reviews, start_count, palette, fanVars, rerunVars, scoreVars, equivVars>>

promo_node ==
    /\ \E F \in SUBSET (1..Len(Get(state, "generated_assets", <<>>))) :
            /\ Cardinality(F) <= budget
            /\ budget' = budget - Cardinality(F)
            /\ RunNode("promotion", batch_promote(state, F), "review")
    /\ UNCHANGED <<driver, script, reviews, start_count, palette, fanVars, rerunVars, scoreVars, equivVars>>

review_node ==
    /\ \E out \in palette :
            /\ out.kind # "score" => budget > 0
            /\ budget' = IF out.kind # "score" THEN budget - 1 ELSE budget
            /\ RunNode("review", review_campaign(state, out, reviews + 1), "should_refine")
            /\ script' = Append(script, out)
    /\ reviews' = reviews + 1
    /\ UNCHANGED <<driver, start_count, palette, fanVars, rerunVars, scoreVars, equivVars>>

\* the conditional edge after "review" / the while condition of the UI loop
refine_edge ==
    /\ pc = "should_refine"
    /\ pc' = IF should_refine(state) = "refine" THEN "increment_count" ELSE "END"
    /\ UNCHANGED <<driver, state, script, reviews, start_count, last, palette, budget, ran,
                   fanVars, rerunVars, scoreVars, equivVars>>

increment_count ==
    /\ RunNode("increment_count", increment_refinement(state), "content_creation")
    /\ UNCHANGED <<driver, script, reviews, start_count, palette, budget, fanVars, rerunVars, scoreVars, equivVars>>

Next ==
    \/ inputs
    \/ research_node
    \/ segment_node
    \/ competitor_node
    \/ strategy_node
    \/ campaign_node
    \/ jtbd_node
    \/ content_node
    \/ promo_node
    \/ review_node
    \/ refine_edge
    \/ increment_count

Spec == Init /\ [][Next]_vars

----------------------------------------------------------------------------
(* The refinement loop on its own, with every review outcome on offer *)

InitLoop ==
    /\ pc = "content_creation"
    /\ \/ /\ driver = "ui"
          /\ \E t \in Thresholds, m \in 0..MaxRefinementsBound :
                state = UiGenState(Manifest(1, "ui"), t, m)
       \/ /\ driver = "graph"
          /\ \E n \in {0, 1}, shape \in {"jtbd", "unlisted"}, carried \in BOOLEAN :
                state = IF carried THEN EarlierRunState(Manifest(n, shape))
                        ELSE GraphGenState(Manifest(n, shape), 0, <<>>)
    /\ script = <<>>
    /\ reviews = 0
    /\ start_count = Get(state, "refinement_count", 0)
    /\ last = NoLast
    /\ palette = ReviewOutcomes
    /\ budget = MaxRefinementsBound + 1
    /\ ran = <<>>
    /\ FanIdle
    /\ RerunIdle
    /\ ScoreIdle
    /\ EquivIdle

NextLoop ==
    \/ content_node
    \/ promo_node
    \/ review_node
    \/ refine_edge
    \/ increment_count

LoopSpec == InitLoop /\ [][NextLoop]_vars

\* every node call returns or raises (the service call has a timeout), and
\* the driver then runs the next node
FairLoopSpec == LoopSpec /\ WF_vars(NextLoop)

----------------------------------------------------------------------------
(* ContentCreatorAgent.batch_generate step by step: the calling thread,   *)
(* the ThreadPoolExecutor's FIFO work queue and its max_workers threads.  *)

FanManifest == Get(fstate, "content_manifest", <<>>)
FanN == Len(FanManifest)
Running == {i \in 1..FanN : task[i] = "running"}
Finished == {i \in 1..FanN : task[i] \in {"returned", "raised"}}
Yielded == {yielded[j] : j \in 1..Len(yielded)}

\* the futures as_completed can yield: those whose call has ended
DoneFutures_eager == {i \in 1..FanN : task[i] # "new"}

DoneFutures == Finished

\* as_completed ends when it has yielded every future it was given
as_completed_exhausted_on_first == FanN = 0 \/ Yielded # {}

as_completed_exhausted == Yielded = 1..FanN

\* ThreadPoolExecutor(max_workers=3): a thread is free to take the next
\* queued call; a thread survives a call that raises (the exception is
\* stored in the future)
IdleWorker_dies_on_raise ==
    Cardinality(Running) + Cardinality({i \in 1..FanN : task[i] = "raised"}) < max_workers

IdleWorker_unbounded == TRUE

IdleWorker == Cardinality(Running) < max_workers

OrchIdle ==
    /\ driver = "none"
    /\ pc = "END"
    /\ state = EmptyDict
    /\ script = <<>>
    /\ reviews = 0
    /\ start_count = 0
    /\ last = NoLast
    /\ palette = {}
    /\ budget = 0
    /\ ran = <<>>

InitFan ==
    /\ OrchIdle
    /\ fpc = "called"
    /\ \E n \in 0..FanMaxManifest :
          /\ \/ fstate = [content_manifest |-> Manifest(n, "jtbd")]
             \/ fstate = [content_manifest |-> Manifest(n, "jtbd"), errors |-> <<PriorError>>]
          /\ raises \in SUBSET (1..n)
          /\ task = [i \in 1..n |-> "new"]
          /\ submits = [i \in 1..n |-> 0]
    /\ yielded = <<>>
    /\ assets = <<>>
    /\ errs = <<>>
    /\ result = EmptyDict
    /\ RerunIdle
    /\ ScoreIdle
    /\ EquivIdle

\* lines 98-114: read the dict, bind the local lists, normalise the items
fan_begin ==
    /\ fpc = "called"
    /\ assets' = <<>>
    /\ errs' = Get(fstate, "errors", <<>>)
    /\ fstate' = IF "content_manifest" \in DOMAIN fstate
                 THEN [fstate EXCEPT !["content_manifest"] =
                            [i \in 1..FanN |-> NormalizeItem(FanManifest[i])]]
                 ELSE fstate
    /\ fpc' = IF FanN = 0 THEN "collecting" ELSE "submitting"
    /\ UNCHANGED <<raises, task, submits, yielded, result, orchVars, rerunVars, scoreVars, equivVars>>

\* line 121: executor.submit(generate_one, item) for the next item of the
\* manifest; the future is queued
fan_submit ==
    /\ fpc = "submitting"
    /\ \E i \in 1..FanN :
          /\ task[i] = "new"
          /\ \A j \in 1..(i - 1) : task[j] # "new"
          /\ task' = [task EXCEPT ![i] = "queued"]
          /\ submits' = [submits EXCEPT ![i] = @ + 1]
          /\ fpc' = IF i = FanN THEN "collecting" ELSE "submitting"
    /\ UNCHANGED <<fstate, raises, yielded, assets, errs, result, orchVars, rerunVars, scoreVars, equivVars>>

\* a worker thread, of which there are at most max_workers, takes the head
\* of the work queue and starts generate_one
worker_start ==
    /\ IdleWorker
    /\ \E i \in 1..FanN :
          /\ task[i] = "queued"
          /\ \A j \in 1..(i - 1) : task[j] # "queued"
          /\ task' = [task EXCEPT ![i] = "running"]
    /\ UNCHANGED <<fpc, fstate, raises, submits, yielded, assets, errs, result, orchVars, rerunVars, scoreVars, equivVars>>

\* generate_one returns the asset dict or raises
worker_finish ==
    /\ \E i \in Running :
          task' = [task EXCEPT ![i] = IF i \in raises THEN "raised" ELSE "returned"]
    /\ UNCHANGED <<fpc, fstate, raises, submits, yielded, assets, errs, result, orchVars, rerunVars, scoreVars, equivVars>>

\* lines 122-134: as_completed yields a finished future not yielded before;
\* the calling thread appends its result or its error record
as_completed_next ==
    /\ fpc = "collecting"
    /\ \E i \in DoneFutures \ Yielded :
          /\ yielded' = Append(yielded, i)
          /\ IF task[i] = "returned"
             THEN /\ assets' = CollectResult(assets,
                        generate_asset(FanManifest[i], Get(fstate, "refinement_instructions", "")))
                  /\ UNCHANGED <<errs, fstate>>
             ELSE /\ errs' = Append(errs, GenerationError(FanManifest[i]))
                  /\ fstate' = IF "errors" \in DOMAIN fstate
                               THEN [fstate EXCEPT !["errors"] = errs'] ELSE fstate
                  /\ UNCHANGED assets
    /\ UNCHANGED <<fpc, raises, task, submits, result, orchVars, rerunVars, scoreVars, equivVars>>

\* as_completed is exhausted once it has yielded every future; the with
\* block then joins the workers and line 136 returns
fan_return ==
    /\ fpc = "collecting"
    /\ as_completed_exhausted
    /\ result' = [generated_assets |-> assets, errors |-> errs]
    /\ fpc' = "returned"
    /\ UNCHANGED <<fstate, raises, task, submits, yielded, assets, errs, orchVars, rerunVars, scoreVars, equivVars>>

NextFan ==
    \/ fan_begin
    \/ fan_submit
    \/ worker_start
    \/ worker_finish
    \/ as_completed_next
    \/ fan_return

FanSpec == InitFan /\ [][NextFan]_vars

\* threads are scheduled, and generate_one ends (sleep, then a service call
\* with a timeout): every step that stays possible is eventually taken
FairFanSpec == FanSpec /\ WF_vars(NextFan)

----------------------------------------------------------------------------
(* Properties *)

Errs(st) == Get(st, "errors", <<>>)
Score == Get(state, "reviewer_score", 0)
Count == Get(state, "refinement_count", 0)
Threshold == Get(state, "refinement_threshold", DefaultThreshold)
MaxRefs == Get(state, "max_refinements", DefaultMaxRefinements)

\* the scores a run's reviews wrote so far (a raising review writes 0)
ScoresOf(sc) == [j \in 1..Len(sc) |-> sc[j].score]

\* how many leading elements of scores are below t
RECURSIVE LeadingBelow(_, _)
LeadingBelow(scores, t) ==
    IF scores = <<>> \/ Head(scores) >= t THEN 0 ELSE 1 + LeadingBelow(Tail(scores), t)

\* C1: at the decision after Review the controller goes to Refine exactly
\* when reviewer_score < refinement_threshold and refinement_count <
\* max_refinements, and to Done in every other case; the Refine step adds
\* exactly 1 to refinement_count and re-enters Generate.
C1_RefineIff ==
    [][ /\ pc = "should_refine" =>
            /\ pc' \in {"should_refine", "increment_count", "END"}
            /\ pc' = "increment_count" => (Score < Threshold /\ Count < MaxRefs)
            /\ pc' = "END" => ~(Score < Threshold /\ Count < MaxRefs)
        /\ (pc = "increment_count" /\ pc' # pc) =>
            /\ pc' = "content_creation"
            /\ state'["refinement_count"] = Count + 1 ]_vars

\* a run that refined once on 50 and then stopped on a score equal to the
\* threshold although refinement budget was left
C1_Witness ==
    /\ pc = "END"
    /\ ScoresOf(script) = <<50, 80>>
    /\ Threshold = 80
    /\ Count = 1
    /\ MaxRefs = 2

\* C2: a generation run that starts at refinement_count = 0 never executes
\* more than max_refinements + 1 cycles, has executed at least one when it
\* is Done (exactly one when max_refinements = 0), and does reach Done,
\* unless the reviewer cannot be constructed at all (then there is no score).
C2_BoundedCycles ==
    /\ [](start_count = 0 => reviews <= MaxRefs + 1)
    /\ []((start_count = 0 /\ pc = "END") =>
            (reviews >= 1 /\ (MaxRefs = 0 => reviews = 1)))
    /\ (start_count = 0) ~>
            (pc = "END" \/ (pc = "aborted" /\ script[Len(script)].kind = "no_llm"))

\* a run that used its whole budget: max_refinements + 1 cycles
C2_Witness ==
    /\ pc = "END"
    /\ start_count = 0
    /\ MaxRefs = 2
    /\ reviews = 3

\* C3: when a run that started at refinement_count = 0 is Done, the number
\* of cycles is 1 + min(max_refinements, k), k the number of leading scores
\* below the threshold, and refinement_count = cycles - 1.
C3_CycleCount ==
    (pc = "END" /\ start_count = 0) =>
        /\ reviews = 1 + Min(MaxRefs, LeadingBelow(ScoresOf(script), Threshold))
        /\ Count = reviews - 1

\* threshold 80, max_refinements 2, scores [50, 65, 85]: 3 cycles, count 2
C3_Witness ==
    /\ pc = "END"
    /\ start_count = 0
    /\ Threshold = 80
    /\ MaxRefs = 2
    /\ ScoresOf(script) = <<50, 65, 85>>
    /\ reviews = 3
    /\ Count = 2

\* the errors list batch_generate was given (InitFan passes none, or one
\* holding PriorError)
FanPrior == IF "errors" \in DOMAIN fstate THEN <<PriorError>> ELSE <<>>

AssetsFrom(i) ==
    Cardinality({j \in 1..Len(result["generated_assets"]) :
                    result["generated_assets"][j]["content"]["question"] = i})

ErrorsFrom(i) ==
    Cardinality({j \in (Len(FanPrior) + 1)..Len(result["errors"]) :
                    result["errors"][j] = GenerationError(FanManifest[i])})

\* C4: no item is submitted twice, and when batch_generate has returned
\* every item of the manifest was submitted once and has exactly one
\* outcome, an asset or a new error record: assets + new records = N.
C4_OneOutcomePerItem ==
    /\ \A i \in 1..FanN : submits[i] <= 1
    /\ fpc = "returned" =>
        /\ \A i \in 1..FanN : submits[i] = 1
        /\ IsPrefix(FanPrior, result["errors"])
        /\ Len(result["generated_assets"]) + Len(result["errors"]) - Len(FanPrior) = FanN
        /\ \A i \in 1..FanN : AssetsFrom(i) + ErrorsFrom(i) = 1

\* a batch larger than the pool in which some tasks raise and some do not
C4_Witness ==
    /\ fpc = "returned"
    /\ FanN > max_workers
    /\ raises # {}
    /\ raises # 1..FanN

\* C5: whatever the set of raising tasks and the order of completion, the
\* assets batch_generate returns are exactly the results of the tasks that
\* did not raise.
C5_ErrorIsolation ==
    fpc = "returned" =>
        /\ Len(result["generated_assets"]) = FanN - Cardinality(raises)
        /\ {result["generated_assets"][j] : j \in 1..Len(result["generated_assets"])}
             = {generate_asset(FanManifest[i], "") : i \in (1..FanN) \ raises}

\* the middle task of three raises and completes between the other two
C5_Witness ==
    /\ fpc = "returned"
    /\ raises = {2}
    /\ yielded = <<3, 2, 1>>
    /\ Len(result["generated_assets"]) = 2

\* C6: when every task of the manifest raises, batch_generate still
\* returns, with no asset and exactly N new error records.
C6_AllFailReturns ==
    (fpc = "called" /\ raises = 1..FanN) ~>
        (/\ fpc = "returned"
         /\ result["generated_assets"] = <<>>
         /\ Len(result["errors"]) = Len(FanPrior) + FanN)

\* more failing tasks than workers, empty prior list: len(errors) = N
C6_Witness ==
    /\ fpc = "returned"
    /\ FanN > max_workers
    /\ raises = 1..FanN
    /\ FanPrior = <<>>
    /\ result["generated_assets"] = <<>>
    /\ Len(result["errors"]) = FanN

\* C7: batch_generate returns only when every submitted task has ended,
\* by returning or by raising, and its outcome has been collected.
C7_JoinBarrier ==
    fpc = "returned" =>
        \A i \in 1..FanN : task[i] \in {"returned", "raised"} /\ i \in Yielded

\* the first future to complete had raised, and the batch still ran on
C7_Witness ==
    /\ fpc = "returned"
    /\ FanN > max_workers
    /\ yielded[1] \in raises
    /\ Cardinality(raises) = 1

\* C8: every step of a run leaves the errors list it found as a prefix of
\* the errors list it leaves behind.
C8_ErrorsAppendOnly == [][IsPrefix(Errs(state), Errs(state'))]_vars

\* the review error of the first cycle is still there, in front of a
\* generation error of the second cycle
C8_Witness ==
    /\ reviews = 1
    /\ pc = "promotion"
    /\ Len(Errs(state)) = 2
    /\ Errs(state)[1]["agent_name"] = "ReviewerAgent"
    /\ Errs(state)[2]["agent_name"] = "ContentCreatorAgent"

\* C9: no node of the analysis pipeline or of the generation loop lets a
\* failure escape: the run is never aborted by an exception.
C9_NoEscape == pc # "aborted"

LlmStages ==
    {"research", "segmentation", "competitors", "strategy", "campaign_briefing",
     "jtbd_analysis", "review"}

\* the keys a stage writes when its service call succeeds
NormalOutputs(node) ==
    CASE node = "research" -> {"company_name", "deep_research"}
      [] node = "segmentation" -> {"segments", "personas"}
      [] node = "competitors" -> {"competitor_analysis"}
      [] node = "strategy" -> {"strategy_framework"}
      [] node = "campaign_briefing" -> {"campaign_brief"}
      [] node = "jtbd_analysis" -> {"content_manifest"}
      [] OTHER -> {"reviewer_feedback", "reviewer_score", "refinement_instructions"}

AgentOf(node) ==
    CASE node = "research" -> "CompanyResearchAgent"
      [] node = "segmentation" -> "MarketSegmentAgent"
      [] node = "competitors" -> "CompetitorAgent"
      [] node = "strategy" -> "StrategyAgent"
      [] node = "campaign_briefing" -> "CampaignArchitectAgent"
      [] node = "jtbd_analysis" -> "JTBDAnalyst"
      [] OTHER -> "ReviewerAgent"

\* the values a stage writes when its service call succeeds
NormalValues ==
    {"Acme", "report", "battlecard", "positioning", "Strengths and Gaps"}

IsPlaceholder(node, k, v) ==
    CASE k \in {"segments", "personas", "content_manifest"} -> v = <<>>
      [] k = "reviewer_score" -> v = 0
      [] k = "campaign_brief" -> DOMAIN v = {"error"}
      [] k = "company_name" -> v = Get(last.before, "company_name", "Unknown")
      [] OTHER -> v \notin NormalValues

\* the update of the last node: a placeholder for each normal output, the
\* errors list extended by one record of that stage, and nothing else
DegradedUpdate ==
    /\ ~last.raised
    /\ DOMAIN last.upd = NormalOutputs(last.node) \cup {"errors"}
    /\ \A k \in NormalOutputs(last.node) : IsPlaceholder(last.node, k, last.upd[k])
    /\ Len(last.upd["errors"]) = Len(Errs(last.before)) + 1
    /\ IsPrefix(Errs(last.before), last.upd["errors"])
    /\ last.upd["errors"][Len(last.upd["errors"])]["agent_name"] = AgentOf(last.node)

SomeCallFailed == \E j \in 1..Len(last.calls) : last.calls[j] = "fail"
EveryCallFailed == last.calls # <<>> /\ \A j \in 1..Len(last.calls) : last.calls[j] = "fail"

AnalysisOrder ==
    <<"inputs", "research", "segmentation", "competitors", "strategy",
      "campaign_briefing", "jtbd_analysis">>

\* the run is an analysis run: it entered at "inputs"
AnalysisRun == IF ran = <<>> THEN pc = "inputs" ELSE ran[1] = "inputs"

\* C11: in an analysis run the nodes executed so far are always a prefix
\* of inputs, research, segmentation, competitors, strategy,
\* campaign_briefing, jtbd_analysis (so none is skipped or repeated and no
\* generation node runs); unless an exception stopped the run, the node to
\* run next is the one after the last executed (no branching), the state
\* it will be given is the previous node's update merged into the dict,
\* and the run is at END exactly when all seven have run.
C11_FixedStageOrder ==
    AnalysisRun =>
        /\ IsPrefix(ran, AnalysisOrder)
        /\ pc # "aborted" =>
            /\ pc = IF Len(ran) < Len(AnalysisOrder) THEN AnalysisOrder[Len(ran) + 1] ELSE "END"
            /\ ran # <<>> =>
                /\ last.node = ran[Len(ran)]
                /\ state = Merge(last.after, last.upd)

\* a complete analysis run in which a stage degraded and the rest still ran
C11_Witness ==
    /\ pc = "END"
    /\ ran = AnalysisOrder
    /\ Len(Errs(state)) = 1
    /\ state["segments"] = <<>>
    /\ state["content_manifest"] # <<>>

\* C12: every step keeps every key the dict had; a node that returned
\* leaves, for each key of its update, the update's value (whole value
\* replaced), for every other key the value the dict held when the update
\* was merged, and adds no key outside the update; a step that merges
\* nothing leaves the set of keys as it was.  Hence the final dict has
\* every field of the initial one.
C12_MergeOverwrites ==
    [][ /\ DOMAIN state \subseteq DOMAIN state'
        /\ (ran' # ran /\ ~last'.raised) =>
            /\ DOMAIN state' = DOMAIN state \cup DOMAIN last'.upd
            /\ \A k \in DOMAIN state' :
                  state'[k] = IF k \in DOMAIN last'.upd THEN last'.upd[k] ELSE last'.after[k]
        /\ (ran' = ran \/ last'.raised) => DOMAIN state' = DOMAIN state ]_vars

\* a UI generation run after one refinement: refinement_count, the score
\* and the assets were overwritten, the fields no stage writes are there
C12_Witness ==
    /\ driver = "ui"
    /\ pc = "END"
    /\ reviews = 2
    /\ state["refinement_count"] = 1
    /\ state["reviewer_score"] = 85
    /\ state["company_name"] = "Acme"
    /\ state["messaging_pillars"] = <<>>

----------------------------------------------------------------------------
(* Running a stage sequence twice on the same dict.  The caller keeps the  *)
(* dict it passed; a run works on a dict holding the same value objects,   *)
(* so the lists a stage changes in place (errors, the manifest items) are  *)
(* the caller's lists whenever the caller's dict has the key.              *)

GenerationOrder == <<"content_creation", "promotion">>

\* the node functions of core/graph.py, with the outcome of the node's
\* service calls fixed by out (for the batch nodes: the raising positions)
StageCall(node, st, out) ==
    CASE node = "inputs" -> input_node(st, "ok", "loaded")
      [] node = "research" -> research(st, IF out = "ok" THEN "json_ok" ELSE "both_fail")
      [] node = "segmentation" -> segment_analyze(st, out)
      [] node = "competitors" -> competitor_analyze(st, out)
      [] node = "strategy" -> develop_strategy(st, out)
      [] node = "campaign_briefing" -> create_brief(st, out)
      [] node = "jtbd_analysis" -> analyze_jobs(st, out)
      [] node = "content_creation" ->
            batch_generate(st, [i \in 1..Len(Get(st, "content_manifest", <<>>)) |-> i], out)
      [] OTHER -> batch_promote(st, out)

\* the caller's dict after a node ran on a dict sharing its value objects
InputAfter(inp, r) ==
    [k \in DOMAIN inp |-> IF k \in {"errors", "content_manifest"} THEN r.st[k] ELSE inp[k]]

\* one run of the sequence seq on the caller's dict inp
RunStages(inp, seq, plan) ==
    LET f[i \in 0..Len(seq)] ==
            IF i = 0 THEN [input |-> inp, state |-> inp]
            ELSE LET r == StageCall(seq[i], f[i - 1].state, plan[seq[i]])
                 IN  [input |-> InputAfter(f[i - 1].input, r), state |-> Merge(r.st, r.upd)]
    IN  f[Len(seq)]

\* the caller's dict: without an errors key, with an empty errors list, or
\* with the list an earlier stage left
RerunInputs(base) ==
    {base, Merge(base, [errors |-> <<>>]), Merge(base, [errors |-> <<PriorError>>])}

InitRerun ==
    /\ OrchIdle
    /\ FanIdle
    /\ ScoreIdle
    /\ EquivIdle
    /\ rout = <<>>
    /\ \/ \E inp \in RerunInputs([company_url |-> ValidUrl]),
             plan \in [{AnalysisOrder[i] : i \in 1..Len(AnalysisOrder)} -> StageOutcomes] :
                rin = [input |-> inp, seq |-> AnalysisOrder, plan |-> plan]
       \/ \E n \in 1..MaxManifest :
          \E inp \in RerunInputs([content_manifest |-> Manifest(n, "jtbd")]),
             F \in SUBSET (1..n) :
                rin = [input |-> inp, seq |-> GenerationOrder,
                       plan |-> [content_creation |-> F, promotion |-> {}]]

\* the caller runs the sequence on its dict; the first run, then the second
run_sequence ==
    /\ Len(rout) < 2
    /\ LET r == RunStages(rin.input, rin.seq, rin.plan)
       IN  /\ rout' = Append(rout, r.state)
           /\ rin' = [rin EXCEPT !.input = r.input]
    /\ UNCHANGED <<orchVars, fanVars, scoreVars, equivVars>>

NextRerun == run_sequence

RerunSpec == InitRerun /\ [][NextRerun]_vars

\* C13: two runs of the same stage sequence, with the same outcome of
\* every service call, on the same dict end with errors lists of the same
\* length.
C13_SameErrorsLength ==
    Len(rout) = 2 => Len(Errs(rout[1])) = Len(Errs(rout[2]))

\* C14: the dict a node was called with is, when the node has returned,
\* as it was when the node was called: same keys, same values, the lists
\* and records inside included.
C14_StagePure == last.node # "none" => last.after = last.before

\* the run is a generation run: it entered at "content_creation"
GenerationRun == IF ran = <<>> THEN pc = "content_creation" ELSE ran[1] = "content_creation"

\* C15: the first Generate of a generation run is given refinement_count
\* = 0, and a run all of whose reviews score below the threshold makes
\* max_refinements refinements (max_refinements + 1 cycles), whatever
\* refinement_count the caller's dict carried.
C15_StartsFromZero ==
    GenerationRun =>
        /\ ran # <<>> => Get(IF Len(ran) = 1 THEN last.before ELSE state, "refinement_count", 0)
                            = Len(SelectSeq(ran, LAMBDA n : n = "increment_count"))
        /\ (pc = "END" /\ \A j \in 1..Len(script) : script[j].score < Threshold) =>
                reviews = MaxRefs + 1

\* the refinement_instructions the k-th review of the run wrote
ReviewInstructions(k) ==
    IF script[k].kind = "score" THEN InstructionsOf(k) ELSE "Please retry generation."

\* the instructions the assets of a list were generated with
InstructionsIn(lst) == {lst[j]["content"]["refinement"] : j \in 1..Len(lst)}

\* C16: the assets a Generate step returns were all generated with the
\* instructions of the review before it, those of the first Generate of a
\* run with none; and the instructions a run's last review wrote are in
\* no asset the run ends with.
C16_InstructionsFromPreviousReview ==
    GenerationRun =>
        /\ last.node = "content_creation" =>
                InstructionsIn(last.upd["generated_assets"])
                    \subseteq {IF reviews = 0 THEN "" ELSE ReviewInstructions(reviews)}
        /\ (pc = "END" /\ script[reviews].kind = "score") =>
                InstructionsOf(reviews) \notin InstructionsIn(state["generated_assets"])

\* the manifest of a dict with every item's asset type filled in
NormManifest(st) ==
    LET m == Get(st, "content_manifest", <<>>) IN [i \in 1..Len(m) |-> NormalizeItem(m[i])]

\* the error records the last node added
NewErrors == SubSeq(last.upd["errors"], Len(Errs(last.before)) + 1, Len(last.upd["errors"]))

AssetTypes == {type_options[i] : i \in 1..Len(type_options)}

\* the type an item names, under either key
GivenType(item) == Get(item, "asset_type", Get(item, "recommended_asset_type", "absent"))

\* C19: when a Generate step has returned, every item of the manifest it
\* consumed has an asset_type of the fixed set, Blog Post if the item named
\* no type or one outside the set, and every asset it built has a type of
\* the set.
C19_AssetTypeInSet ==
    (GenerationRun /\ last.node = "content_creation") =>
        /\ \A i \in 1..Len(state["content_manifest"]) :
              /\ state["content_manifest"][i]["asset_type"] \in AssetTypes
              /\ GivenType(last.before["content_manifest"][i]) \notin AssetTypes
                    => state["content_manifest"][i]["asset_type"] = "Blog Post"
        /\ \A j \in 1..Len(state["generated_assets"]) :
              state["generated_assets"][j]["type"] \in AssetTypes

\* C20: the input node never raises; when the URL was rejected or the
\* fetch failed it returns raw_web_content = "", and when the document
\* directory was missing or a file could not be read it returns
\* raw_doc_content = "".
C20_LoaderFailureDegrades ==
    last.node = "inputs" =>
        /\ ~last.raised
        /\ last.calls[1] = "fail" => last.upd["raw_web_content"] = ""
        /\ last.calls[2] \in {"missing", "unreadable"} => last.upd["raw_doc_content"] = ""

\* the configuration keys of the refinement loop
ConfigKeys == {"refinement_threshold", "max_refinements"}

\* C21: in a generation run every step leaves refinement_count as it was
\* or, when it is the Refine step, one higher; and no step changes,
\* adds or removes refinement_threshold or max_refinements, which no
\* node's update contains.
C21_CountMonotoneConfigFixed ==
    [][ GenerationRun =>
          /\ Get(state', "refinement_count", 0) >= Count
          /\ Get(state', "refinement_count", 0) # Count =>
                /\ pc = "increment_count"
                /\ Get(state', "refinement_count", 0) = Count + 1
          /\ \A k \in ConfigKeys :
                /\ (k \in DOMAIN state') = (k \in DOMAIN state)
                /\ k \in DOMAIN state => state'[k] = state[k]
                /\ k \notin DOMAIN last'.upd ]_vars

\* a run that refined twice under the configuration it was started with
C21_Witness ==
    /\ driver = "ui"
    /\ pc = "END"
    /\ ran[Len(ran)] = "review"
    /\ Count = 2
    /\ state["refinement_threshold"] = 80
    /\ state["max_refinements"] = 2

----------------------------------------------------------------------------
(* The score field of the reviewer's reply.  The service's JSON is parsed  *)
(* by JsonOutputParser, so the field can be absent or hold any JSON value; *)
(* a value is written here with its Python type as tag.                    *)

PyInt(v) == [tag |-> "int", val |-> v]
PyNone == [tag |-> "NoneType"]
PyStr(t) == [tag |-> "str", text |-> t]
\* a float with one binary digit after the point: twice its value
PyFloat(twice) == [tag |-> "float", twice |-> twice]
Missing == [tag |-> "missing"]

ScoreFields ==
    {PyInt(v) : v \in {-5, 0, 50, 79, 80, 81, 100, 150}}
        \cup {Missing, PyNone, PyStr("85"), PyFloat(171)}

\* the thresholds the UI's slider and the default offer
ScoreThresholds == {50, DefaultThreshold, 100}

\* review_campaign: "reviewer_score": result.get("score", 0)
StoredScore(field) == IF field = Missing THEN PyInt(0) ELSE field

\* should_refine: score < threshold, with score = state.get("reviewer_score", 0).
\* Python orders int and float values; None < int and str < int raise TypeError.
ScoreDecision(score, threshold) ==
    CASE score["tag"] = "int" ->
            should_refine([reviewer_score |-> score["val"], refinement_threshold |-> threshold])
      [] score["tag"] = "float" ->
            IF score["twice"] < 2 * threshold THEN should_refine([reviewer_score |-> 0,
                                                    refinement_threshold |-> threshold])
            ELSE "end"
      [] OTHER -> "TypeError"

InitScore ==
    /\ OrchIdle
    /\ FanIdle
    /\ RerunIdle
    /\ EquivIdle
    /\ \E f \in ScoreFields, t \in ScoreThresholds : svc = [field |-> f, threshold |-> t]
    /\ verdict = EmptyDict

\* the Review step stores the score
store_score ==
    /\ verdict = EmptyDict
    /\ verdict' = [reviewer_score |-> StoredScore(svc["field"])]
    /\ UNCHANGED <<svc, orchVars, fanVars, rerunVars, equivVars>>

\* the decision after Review compares it with the threshold
decide_score ==
    /\ DOMAIN verdict = {"reviewer_score"}
    /\ verdict' = [reviewer_score |-> verdict["reviewer_score"],
                   decision |-> ScoreDecision(verdict["reviewer_score"], svc["threshold"])]
    /\ UNCHANGED <<svc, orchVars, fanVars, rerunVars, equivVars>>

NextScore ==
    \/ store_score
    \/ decide_score

ScoreSpec == InitScore /\ [][NextScore]_vars

\* C22: the reviewer_score a Review step stores is an integer from 0 to
\* 100 whatever the score field of the reply held, and the comparison of
\* should_refine with it is defined.
C22_ScoreInRange ==
    /\ "reviewer_score" \in DOMAIN verdict =>
            /\ verdict["reviewer_score"]["tag"] = "int"
            /\ verdict["reviewer_score"]["val"] \in 0..100
    /\ "decision" \in DOMAIN verdict => verdict["decision"] \in {"refine", "end"}

\* the tasks waiting in the executor's work queue
Queued == {i \in 1..FanN : task[i] = "queued"}

\* C23: at every moment of a batch at most max_workers tasks are
\* executing, and every task waiting in the queue is eventually started.
C23_PoolWidth ==
    /\ [](Cardinality(Running) <= max_workers)
    /\ \A i \in 1..FanMaxManifest :
          (i \in Queued) ~> (i \in DOMAIN task /\ task[i] \in {"running", "returned", "raised"})

\* all three workers busy while a fourth task waits in the queue
C23_Witness ==
    /\ FanN > max_workers
    /\ Cardinality(Running) = max_workers
    /\ Queued # {}

\* how many entries of the local lists record the outcome of future i
AssetEntries(i) ==
    Cardinality({j \in 1..Len(assets) : assets[j]["content"]["question"] = i})

ErrorEntries(i) ==
    Cardinality({j \in (Len(FanPrior) + 1)..Len(errs) : errs[j] = GenerationError(FanManifest[i])})

\* C24: at every moment of a batch, under every interleaving, the two
\* lists hold exactly one whole entry for each future collected so far
\* (an asset if it returned, an error record if it raised) and none for
\* the others: no append is lost, duplicated or torn, however many tasks
\* have finished and wait to be collected.
C24_AppendSafe ==
    fpc \in {"submitting", "collecting", "returned"} =>
        /\ IsPrefix(FanPrior, errs)
        /\ Len(assets) + Len(errs) - Len(FanPrior) = Len(yielded)
        /\ \A j \in 1..Len(assets) :
              /\ assets[j]["content"]["question"] \in Yielded \ raises
              /\ assets[j] = generate_asset(FanManifest[assets[j]["content"]["question"]], "")
        /\ \A i \in 1..FanN :
              /\ AssetEntries(i) = IF i \in Yielded \ raises THEN 1 ELSE 0
              /\ ErrorEntries(i) = IF i \in Yielded \cap raises THEN 1 ELSE 0

\* three tasks finished before any was collected, one of them by raising;
\* the first has been collected and the other two wait at the merge point
C24_Witness ==
    /\ fpc = "collecting"
    /\ FanN = 3
    /\ \A i \in 1..FanN : task[i] \in {"returned", "raised"}
    /\ raises = {1}
    /\ yielded = <<2>>
    /\ Len(assets) = 1

\* the manifest items an asset was generated from
ItemsOf(asset, manifest) ==
    {j \in 1..Len(manifest) :
        Get(manifest[j], "burning_question", 0) = asset["content"]["question"]}

Ids(lst) == [j \in 1..Len(lst) |-> Get(lst[j], "id", "None")]

\* C25: every asset a Generate step returns carries the id of the manifest
\* item it was generated from; an item's asset has the same id in every
\* refinement cycle; promotion and review leave the ids as they were.
C25_IdFromManifestStable ==
    (GenerationRun /\ last.node # "none" /\ ~last.raised) =>
        /\ last.node = "content_creation" =>
              LET manifest == NormManifest(last.before)
                  new == last.upd["generated_assets"]
                  old == Get(last.before, "generated_assets", <<>>)
              IN  /\ \A j \in 1..Len(new) :
                        \E m \in ItemsOf(new[j], manifest) :
                            /\ "id" \in DOMAIN manifest[m]
                            /\ new[j]["id"] = manifest[m]["id"]
                  /\ reviews > 0 =>
                        \A j \in 1..Len(new), k \in 1..Len(old) :
                            new[j]["content"]["question"] = old[k]["content"]["question"]
                                => new[j]["id"] = old[k]["id"]
        /\ last.node \in {"promo_creation", "review"} =>
              Ids(Get(state, "generated_assets", <<>>))
                  = Ids(Get(last.before, "generated_assets", <<>>))

\* the review that just ran failed in its service call
ReviewFailed == last.node = "review" /\ last.calls = <<"fail">>

\* every review of the run so far failed in its service call
AlwaysFailing == \A j \in 1..Len(script) : script[j].kind = "raise"

\* what a failed review leaves in the dict, and how the controller decides
\* on it
FailedReviewHandled ==
    /\ [](ReviewFailed =>
            /\ Errs(state) = Append(Errs(last.before),
                                    ErrorRecord("ReviewerAgent", "api_error", "e"))
            /\ Score = 0
            /\ state["refinement_instructions"] = "Please retry generation.")
    /\ [][(pc = "should_refine" /\ ReviewFailed /\ pc' # pc) =>
            /\ pc' \in {"increment_count", "END"}
            /\ pc' = "increment_count" <=> (0 < Threshold /\ Count < MaxRefs)]_vars

----------------------------------------------------------------------------
(* The two drivers of a generation run side by side: the handler of the   *)
(* "Generate Selected Assets" button (ui/app.py), statement by statement, *)
(* and generation_graph (core/graph.py), node by node along its edges.    *)
(* The handler runs first and what the services did in each of its steps  *)
(* is recorded; the graph then runs on the same initial dict and meets    *)
(* the same outcomes.                                                      *)

GenNodeNames == {"content_creation", "promotion", "review", "increment_count"}

\* what the services can do during one call of a node
NodeOutcomes(node, st) ==
    CASE node = "content_creation" ->
            {[node |-> node, order |-> o, F |-> F] :
                o \in Orders(Len(Get(st, "content_manifest", <<>>))),
                F \in SUBSET (1..Len(Get(st, "content_manifest", <<>>)))}
      [] node = "promotion" ->
            {[node |-> node, F |-> F] :
                F \in SUBSET (1..Len(Get(st, "generated_assets", <<>>)))}
      [] node = "review" -> {[node |-> node, out |-> out] : out \in FewReviewOutcomes}
      [] OTHER -> {[node |-> node]}

ReviewsIn(steps) == Cardinality({j \in 1..Len(steps) : steps[j] = "review"})

\* content_node, promo_node, review_node, increment_refinement
GenNodeCall(node, st, o, steps) ==
    CASE node = "content_creation" -> batch_generate(st, o.order, o.F)
      [] node = "promotion" -> batch_promote(st, o.F)
      [] node = "review" -> review_campaign(st, o.out, ReviewsIn(steps) + 1)
      [] OTHER -> increment_refinement(st)

\* the node each calling statement of the handler calls
HandlerNode(pos) ==
    CASE pos \in {"content_1", "content_n"} -> "content_creation"
      [] pos \in {"promo_1", "promo_n"} -> "promotion"
      [] pos \in {"review_1", "review_n"} -> "review"
      [] OTHER -> "increment_count"

HandlerCalls == {"content_1", "promo_1", "review_1",
                 "increment", "content_n", "promo_n", "review_n"}

\* the statement after each calling statement
HandlerAfter(pos) ==
    CASE pos = "content_1" -> "promo_1"
      [] pos = "promo_1" -> "review_1"
      [] pos = "increment" -> "content_n"
      [] pos = "content_n" -> "promo_n"
      [] pos = "promo_n" -> "review_n"
      [] OTHER -> "while"

GenEntry == "content_creation"

GenEdge_refine_skips_content(node, st) ==
    CASE node = "content_creation" -> "promotion"
      [] node = "promotion" -> "review"
      [] node = "review" -> IF should_refine(st) = "refine" THEN "increment_count" ELSE "END"
      [] OTHER -> "promotion"

\* the edges of gen_workflow; st is the state after the node's update
GenEdge(node, st) ==
    CASE node = "content_creation" -> "promotion"
      [] node = "promotion" -> "review"
      [] node = "review" -> IF should_refine(st) = "refine" THEN "increment_count" ELSE "END"
      [] OTHER -> "content_creation"

InitDrivers ==
    /\ OrchIdle
    /\ FanIdle
    /\ RerunIdle
    /\ ScoreIdle
    /\ \E n \in {0, 1}, t \in Thresholds, m \in 0..MaxRefinementsBound :
          /\ handler = [pc |-> "content_1", st |-> UiGenState(Manifest(n, "ui"), t, m),
                        ran |-> <<>>, results |-> EmptyDict]
          /\ compiled = [pc |-> GenEntry, st |-> UiGenState(Manifest(n, "ui"), t, m),
                         ran |-> <<>>]
    /\ played = <<>>

\* result = node(gen_state); gen_state.update(result)
handler_call ==
    /\ handler.pc \in HandlerCalls
    /\ \E o \in NodeOutcomes(HandlerNode(handler.pc), handler.st) :
          LET node == HandlerNode(handler.pc)
              r == GenNodeCall(node, handler.st, o, handler.ran)
          IN  /\ played' = Append(played, o)
              /\ handler' = [handler EXCEPT
                    !.ran = Append(@, node),
                    !.st = IF r.raised THEN r.st ELSE Merge(r.st, r.upd),
                    !.pc = IF r.raised THEN "except" ELSE HandlerAfter(handler.pc)]
    /\ UNCHANGED <<compiled, orchVars, fanVars, rerunVars, scoreVars>>

\* while should_refine(gen_state) == "refine":
handler_while ==
    /\ handler.pc = "while"
    /\ handler' = [handler EXCEPT
            !.pc = IF should_refine(handler.st) = "refine" THEN "increment" ELSE "merge"]
    /\ UNCHANGED <<compiled, played, orchVars, fanVars, rerunVars, scoreVars>>

\* the handler copies the results into the session's workflow_results
handler_merge ==
    /\ handler.pc = "merge"
    /\ handler' = [handler EXCEPT
            !.pc = "done",
            !.results = [generated_assets |-> Get(handler.st, "generated_assets", <<>>),
                         reviewer_feedback |-> Get(handler.st, "reviewer_feedback", ""),
                         reviewer_score |-> Get(handler.st, "reviewer_score", 0),
                         refinement_count |-> Get(handler.st, "refinement_count", 0)]]
    /\ UNCHANGED <<compiled, played, orchVars, fanVars, rerunVars, scoreVars>>

HandlerOver == handler.pc \in {"done", "except"}

\* one node of generation_graph runs, its update is written to the state
\* and the edge out of it is followed
graph_step ==
    /\ HandlerOver
    /\ compiled.pc \in GenNodeNames
    /\ Len(compiled.ran) < Len(played)
    /\ played[Len(compiled.ran) + 1].node = compiled.pc
    /\ LET r == GenNodeCall(compiled.pc, compiled.st, played[Len(compiled.ran) + 1],
                            compiled.ran)
           after == Merge(r.st, r.upd)
       IN  compiled' = [compiled EXCEPT
                !.ran = Append(@, compiled.pc),
                !.st = IF r.raised THEN r.st ELSE after,
                !.pc = IF r.raised THEN "raised" ELSE GenEdge(compiled.pc, after)]
    /\ UNCHANGED <<handler, played, orchVars, fanVars, rerunVars, scoreVars>>

NextDrivers ==
    \/ handler_call
    \/ handler_while
    \/ handler_merge
    \/ graph_step

DriversSpec == InitDrivers /\ [][NextDrivers]_vars

CompareKeys == {"generated_assets", "errors", "reviewer_score",
                "refinement_instructions", "refinement_count"}

\* C27: run on the same initial dict with the same outcomes of the service
\* calls, generation_graph executes the steps the UI's handler executed, in
\* the same order and no others, stops where the handler stopped (at the
\* end, or at the step that raised), and ends with the same
\* generated_assets, errors, reviewer_score, refinement_instructions and
\* refinement_count.
C27_DriversEquivalent ==
    /\ IsPrefix(compiled.ran, handler.ran)
    /\ (HandlerOver /\ compiled.pc \in GenNodeNames) =>
            /\ Len(compiled.ran) < Len(played)
            /\ played[Len(compiled.ran) + 1].node = compiled.pc
    /\ (HandlerOver /\ compiled.pc \notin GenNodeNames) =>
            /\ compiled.ran = handler.ran
            /\ compiled.pc = IF handler.pc = "done" THEN "END" ELSE "raised"
            /\ \A k \in CompareKeys :
                    Get(compiled.st, k, "None") = Get(handler.st, k, "None")

\* both drivers went through two refinements, with a failed promotion and a
\* failed review on the way, and are at their end
C27_Witness ==
    /\ handler.pc = "done"
    /\ compiled.pc = "END"
    /\ ReviewsIn(compiled.ran) = 3
    /\ Len(Get(compiled.st, "errors", <<>>)) >= 2
    /\ Get(compiled.st, "refinement_count", 0) = 2
    /\ handler.results["refinement_count"] = 2

\* C28: when a generation run that started with refinement_count = 0 <=
\* max_refinements is Done, refinement_count <= max_refinements, and the
\* last reviewer_score is at least the threshold or the refinement budget
\* is used up.
C28_DoneMeansGoodOrExhausted ==
    (GenerationRun /\ pc = "END" /\ start_count = 0 /\ 0 <= MaxRefs) =>
        /\ reviews >= 1
        /\ Score = script[reviews].score
        /\ Count <= MaxRefs
        /\ Score >= Threshold \/ Count = MaxRefs

\* a run that is Done with a score below the threshold, its budget of two
\* refinements used up
C28_Witness ==
    /\ GenerationRun
    /\ pc = "END"
    /\ start_count = 0
    /\ Threshold = DefaultThreshold
    /\ Score = 65
    /\ MaxRefs = 2
    /\ Count = 2

\* the assets of lst, in order, that have no promotional_materials
RECURSIVE Unpromoted(_)
Unpromoted(lst) ==
    IF lst = <<>> THEN <<>>
    ELSE IF "promotional_materials" \in DOMAIN Head(lst) THEN Unpromoted(Tail(lst))
    ELSE <<Head(lst)>> \o Unpromoted(Tail(lst))

\* the same asset but for its promotional_materials
SameButPromo(a, b) ==
    /\ DOMAIN a \ {"promotional_materials"} = DOMAIN b \ {"promotional_materials"}
    /\ \A k \in DOMAIN a \ {"promotional_materials"} : a[k] = b[k]

\* C29: when the promotion node has returned, the list of assets is the
\* caller's own list, with the same assets in the same order, none
\* changed in any field but promotional_materials; every asset either has
\* its promotional_materials set or has exactly one api_error record of
\* PromotionalAgent appended for it, never both, the records in the order
\* of the assets; assets after a failed one are promoted all the same.
C29_PromotionInPlace ==
    (GenerationRun /\ last.node = "promotion") =>
        LET old == Get(last.before, "generated_assets", <<>>)
            new == Get(state, "generated_assets", <<>>)
            failed == Unpromoted(new)
        IN  /\ ~last.raised
            /\ Get(last.after, "generated_assets", <<>>) = new
            /\ Len(new) = Len(old)
            /\ \A j \in 1..Len(old) : SameButPromo(old[j], new[j])
            /\ \A j \in 1..Len(new) :
                    "promotional_materials" \in DOMAIN new[j] =>
                        new[j]["promotional_materials"] = generate_promo(old[j])["promo_content"]
            /\ Errs(state) = Errs(last.before)
                                \o [k \in 1..Len(failed) |-> PromoError(failed[k])]
            /\ \A k \in 1..Len(failed) :
                    /\ PromoError(failed[k])["agent_name"] = "PromotionalAgent"
                    /\ PromoError(failed[k])["error_type"] = "api_error"

\* two assets: the promo of the first failed, the second was promoted
C29_Witness ==
    /\ GenerationRun
    /\ last.node = "promotion"
    /\ Len(state["generated_assets"]) = 2
    /\ "promotional_materials" \notin DOMAIN state["generated_assets"][1]
    /\ "promotional_materials" \in DOMAIN state["generated_assets"][2]
    /\ Len(Errs(state)) = Len(Errs(last.before)) + 1

\* C30: one call of the research stage makes at most two service attempts,
\* the second (plain string) only after the first (JSON) failed; it
\* appends an error record only when both failed, exactly one, with the
\* message of the first failure; when the fallback succeeds it returns the
\* parsed result, the same the first attempt would have returned, and the
\* errors are as they were.
C30_ResearchTwoAttempts ==
    (last.node = "research" /\ ~last.raised) =>
        /\ last.calls \in {<<"ok">>, <<"fail", "ok">>, <<"fail", "fail">>}
        /\ IF last.calls = <<"fail", "fail">>
           THEN /\ Errs(state) = Append(Errs(last.before),
                                        ErrorRecord("CompanyResearchAgent", "api_error",
                                                    "json_err"))
                /\ last.upd["errors"] = Errs(state)
           ELSE /\ Errs(state) = Errs(last.before)
                /\ Errs(last.after) = Errs(last.before)
                /\ "errors" \notin DOMAIN last.upd
                /\ last.upd = research(last.before, "json_ok").upd

\* the JSON attempt failed and the plain-string attempt succeeded
C30_Witness ==
    /\ last.node = "research"
    /\ last.calls = <<"fail", "ok">>
    /\ state["deep_research"] = "report"
    /\ Errs(state) = Errs(last.before)

====
